---- MODULE Spec2Model ----
(***************************************************************************)
(* Model of process_restart.py: the Serpent restart-file codec.            *)
(*                                                                         *)
(* A file is a sequence of bytes (0..255).  A Python str is a sequence of  *)
(* code points.  A Python dict is a sequence of [key, val] entries with    *)
(* unique keys, in insertion order.  A float is its IEEE-754 binary64      *)
(* decomposition [sign, exp, frac]; struct uses the native byte order,     *)
(* which is little-endian here.                                            *)
(***************************************************************************)
EXTENDS Integers, Sequences, FiniteSets, TLC

(***************************************************************************)
(* Bounds of the model.                                                    *)
(***************************************************************************)
\* longest record list of an input file of the grouping runs
MaxRecs == 4
\* longest record list of an input file that is cut short or has odd names
MaxShortRecs == 2
\* longest record list of an input file of the rewrite runs
MaxRewriteRecs == 4
\* number of changes the caller makes to a decoded collection
MaxEdits == 1

(***************************************************************************)
(* Sequences, and dicts as insertion-ordered entry sequences.              *)
(***************************************************************************)
Slice(s, from, n) == SubSeq(s, from, from + n - 1)

RECURSIVE Concat(_)
\* b''.join(blocks)
Concat(blocks) ==
    IF blocks = <<>> THEN <<>> ELSE Head(blocks) \o Concat(Tail(blocks))

DictHas(d, k) == \E i \in 1..Len(d) : d[i].key = k

DictGet(d, k) == d[CHOOSE i \in 1..Len(d) : d[i].key = k].val

\* d[k] = v: an existing key keeps its place, a new key goes last
DictSet(d, k, v) ==
    IF DictHas(d, k)
    THEN [i \in 1..Len(d) |-> IF d[i].key = k THEN [key |-> k, val |-> v] ELSE d[i]]
    ELSE Append(d, [key |-> k, val |-> v])

\* del d[k]
DictDel(d, k) == SelectSeq(d, LAMBDA e : e.key # k)

(***************************************************************************)
(* struct.pack / struct.unpack, formats "q", "d" and "<n>s".               *)
(***************************************************************************)
\* the int64 fits 32 bits, sign included: TLC computes with 32-bit integers
q_fits(b) ==
    \/ b[5] = 0 /\ b[6] = 0 /\ b[7] = 0 /\ b[8] = 0 /\ b[4] < 128
    \/ b[5] = 255 /\ b[6] = 255 /\ b[7] = 255 /\ b[8] = 255 /\ b[4] >= 128

q_negative(b) == b[8] >= 128

\* struct.unpack("q", b)[0]: two's complement, little-endian
unpack_q(b) ==
    LET low == b[1] + 256 * b[2] + 65536 * b[3] + 16777216 * (b[4] % 128)
    IN  IF q_fits(b)
        THEN IF q_negative(b) THEN (low - 2147483647) - 1 ELSE low
        ELSE low + 2^31 * ((b[4] \div 128) + 2 * b[5] + 512 * b[6]
                           + 131072 * b[7] + 33554432 * b[8])
             - (IF q_negative(b) THEN 2^64 ELSE 0)

\* struct.pack("q", v)
pack_q(v) ==
    LET u == IF v < 0 THEN (v + 2147483647) + 1 ELSE v
        hi == IF v < 0 THEN 255 ELSE 0
    IN  << u % 256, (u \div 256) % 256, (u \div 65536) % 256,
           (u \div 16777216) + (IF v < 0 THEN 128 ELSE 0), hi, hi, hi, hi >>

\* struct.unpack("d", b)[0]
unpack_d(b) ==
    [ sign |-> b[8] \div 128,
      exp  |-> (b[8] % 128) * 16 + (b[7] \div 16),
      frac |-> << b[7] % 16, b[6], b[5], b[4], b[3], b[2], b[1] >> ]

\* struct.pack("d", x)
pack_d(x) ==
    << x.frac[7], x.frac[6], x.frac[5], x.frac[4], x.frac[3], x.frac[2],
       (x.exp % 16) * 16 + x.frac[1], x.sign * 128 + (x.exp \div 16) >>

\* struct.pack("<n>s", b): b cut to n bytes, or filled up with zero bytes
pack_s(n, b) ==
    [i \in 1..n |-> IF i <= Len(b) THEN b[i] ELSE 0]

IsNaN(x) == x.exp = 2047 /\ x.frac # <<0, 0, 0, 0, 0, 0, 0>>

IsZero(x) == x.exp = 0 /\ x.frac = <<0, 0, 0, 0, 0, 0, 0>>

\* x != y on Python floats
FloatNe(x, y) ==
    \/ IsNaN(x)
    \/ IsNaN(y)
    \/ ~((IsZero(x) /\ IsZero(y)) \/ x = y)

(***************************************************************************)
(* Text: bytes.decode('UTF-8'), str.encode, str.split, int, str.           *)
(***************************************************************************)
Cont(b) == b >= 128 /\ b <= 191

\* number of bytes of the UTF-8 sequence that starts b; 0 when it is invalid
Utf8Width(b) ==
    LET b1 == b[1]
    IN  IF b1 < 128 THEN 1
        ELSE IF b1 >= 194 /\ b1 <= 223 /\ Len(b) >= 2 /\ Cont(b[2]) THEN 2
        ELSE IF /\ b1 >= 224 /\ b1 <= 239 /\ Len(b) >= 3 /\ Cont(b[2]) /\ Cont(b[3])
                /\ (b1 = 224 => b[2] >= 160)
                /\ (b1 = 237 => b[2] <= 159) THEN 3
        ELSE IF /\ b1 >= 240 /\ b1 <= 244 /\ Len(b) >= 4
                /\ Cont(b[2]) /\ Cont(b[3]) /\ Cont(b[4])
                /\ (b1 = 240 => b[2] >= 144)
                /\ (b1 = 244 => b[2] <= 143) THEN 4
        ELSE 0

CodePoint(b, w) ==
    IF w = 1 THEN b[1]
    ELSE IF w = 2 THEN (b[1] - 192) * 64 + (b[2] - 128)
    ELSE IF w = 3 THEN (b[1] - 224) * 4096 + (b[2] - 128) * 64 + (b[3] - 128)
    ELSE (b[1] - 240) * 262144 + (b[2] - 128) * 4096 + (b[3] - 128) * 64 + (b[4] - 128)

RECURSIVE Utf8Decode(_)
\* b.decode('UTF-8'): ok is FALSE when it raises UnicodeDecodeError
Utf8Decode(b) ==
    IF b = <<>> THEN [ok |-> TRUE, str |-> <<>>]
    ELSE LET w == Utf8Width(b)
         IN  IF w = 0 THEN [ok |-> FALSE, str |-> <<>>]
             ELSE LET rest == Utf8Decode(SubSeq(b, w + 1, Len(b)))
                  IN  [ok |-> rest.ok, str |-> <<CodePoint(b, w)>> \o rest.str]

Utf8Char(c) ==
    IF c < 128 THEN <<c>>
    ELSE IF c < 2048 THEN <<192 + (c \div 64), 128 + (c % 64)>>
    ELSE IF c < 65536
         THEN <<224 + (c \div 4096), 128 + ((c \div 64) % 64), 128 + (c % 64)>>
    ELSE <<240 + (c \div 262144), 128 + ((c \div 4096) % 64),
           128 + ((c \div 64) % 64), 128 + (c % 64)>>

RECURSIVE StrEncode(_)
\* str.encode(s)
StrEncode(s) ==
    IF s = <<>> THEN <<>> ELSE Utf8Char(Head(s)) \o StrEncode(Tail(s))

\* index of the first occurrence of sep in s, 0 when there is none
Find(s, sep) ==
    LET hits == {i \in 1..(Len(s) - Len(sep) + 1) : Slice(s, i, Len(sep)) = sep}
    IN  IF hits = {} THEN 0 ELSE CHOOSE i \in hits : \A j \in hits : i <= j

RECURSIVE Split(_, _)
\* s.split(sep), sep not empty
Split(s, sep) ==
    LET i == Find(s, sep)
    IN  IF i = 0 THEN <<s>>
        ELSE <<SubSeq(s, 1, i - 1)>> \o Split(SubSeq(s, i + Len(sep), Len(s)), sep)

\* the white space int() strips
IsSpace(c) ==
    c \in (9..13) \cup {32, 133, 160, 5760, 8232, 8233, 8239, 8287, 12288}
        \cup (8192..8202)

IsDigit(c) == c >= 48 /\ c <= 57

RECURSIVE Strip(_)
Strip(s) ==
    IF s # <<>> /\ IsSpace(Head(s)) THEN Strip(Tail(s))
    ELSE IF s # <<>> /\ IsSpace(s[Len(s)]) THEN Strip(SubSeq(s, 1, Len(s) - 1))
    ELSE s

RECURSIVE DigitsValue(_, _)
DigitsValue(s, acc) ==
    IF s = <<>> THEN acc
    ELSE IF Head(s) = 95 THEN DigitsValue(Tail(s), acc)
    ELSE DigitsValue(Tail(s), 10 * acc + (Head(s) - 48))

\* int(s) in base 10: ok is FALSE when it raises ValueError.  The digits are
\* the ASCII ones, single underscores may stand between two digits.
IntParse(s) ==
    LET t      == Strip(s)
        signed == t # <<>> /\ t[1] \in {43, 45}
        d      == IF signed THEN Tail(t) ELSE t
        wellformed ==
            /\ d # <<>>
            /\ \A i \in 1..Len(d) : IsDigit(d[i]) \/ d[i] = 95
            /\ IsDigit(d[1]) /\ IsDigit(d[Len(d)])
            /\ \A i \in 1..(Len(d) - 1) : ~(d[i] = 95 /\ d[i + 1] = 95)
    IN  IF ~wellformed THEN [ok |-> FALSE, val |-> 0]
        ELSE [ok |-> TRUE,
              val |-> IF signed /\ t[1] = 45 THEN 0 - DigitsValue(d, 0)
                      ELSE DigitsValue(d, 0)]

RECURSIVE NatToStr(_)
NatToStr(n) ==
    IF n < 10 THEN <<48 + n>> ELSE NatToStr(n \div 10) \o <<48 + (n % 10)>>

\* str(v) of an int
IntToStr(v) == IF v < 0 THEN <<45>> \o NatToStr(0 - v) ELSE NatToStr(v)

(***************************************************************************)
(* class Material                                                          *)
(***************************************************************************)
\* file.read(n) at offset pos, n >= 0: the bytes left, at most n of them
FileRead(data, pos, n) ==
    SubSeq(data, pos + 1, IF pos + n <= Len(data) THEN pos + n ELSE Len(data))

\* a fault: the end of the file is never noticed
NotReadNever(s) == FALSE

\* a fault: a header that comes back short counts as the end of the file
NotReadShort(s) == Len(s) < 8

\* "if not s": nothing was read
NotRead(s) == Len(s) = 0

\* name == prefix
IsParent(name, prefix) == name = prefix

\* self.name.split(prefix+'z')[1] and int() of it: the id, or the exception
ParseId(name, prefix) ==
    LET parts == Split(name, prefix \o <<122>>)
    IN  IF Len(parts) < 2 THEN [ok |-> FALSE, exc |-> "IndexError", id |-> 0]
        ELSE LET v == IntParse(parts[2])
             IN  IF v.ok THEN [ok |-> TRUE, exc |-> "", id |-> v.val]
                 ELSE [ok |-> FALSE, exc |-> "ValueError", id |-> 0]

RECURSIVE ReadNuclides(_, _, _, _)
\* the loop over range(nnuc): todo pairs are still to read at offset pos
ReadNuclides(data, pos, todo, nuclides) ==
    IF todo <= 0 THEN [ok |-> TRUE, nuclides |-> nuclides, pos |-> pos]
    ELSE LET raw == FileRead(data, pos, 16)
         IN  IF Len(raw) # 16 THEN [ok |-> FALSE, nuclides |-> nuclides, pos |-> pos]
             ELSE LET ZAI   == unpack_q(Slice(raw, 1, 8))
                      adens == unpack_d(Slice(raw, 9, 8))
                  IN  ReadNuclides(data, pos + 16, todo - 1,
                                   DictSet(nuclides, IntToStr(ZAI), [adens |-> adens]))

Raised(exc) == [status |-> "raise", exc |-> exc, mat |-> <<>>, pos |-> 0]

\* Material.read(file, prefix) with the file at offset pos.  status is "ok"
\* (returns True), "eof" (returns False) or "raise"; pos is the offset after it.
MaterialRead(file, pos, prefix) ==
    LET data == file.data
        s    == FileRead(data, pos, 8)
    IN
    IF NotRead(s) THEN [status |-> "eof", exc |-> "", mat |-> <<>>, pos |-> pos]
    ELSE IF Len(s) # 8 THEN Raised("struct.error")
    \* file.read(n) of a negative n other than -1
    ELSE IF q_negative(s) /\ s # pack_q(-1) THEN Raised("ValueError")
    \* "-1s" is no struct format
    ELSE IF q_negative(s) THEN Raised("struct.error")
    \* a length no file of the model has: nothing that long can be read
    ELSE IF ~q_fits(s) THEN Raised("MemoryError")
    ELSE
    LET n   == unpack_q(s)
        raw == FileRead(data, pos + 8, n)
    IN
    IF Len(raw) # n THEN Raised("struct.error")
    ELSE
    LET text == Utf8Decode(raw)
    IN
    IF ~text.ok THEN Raised("UnicodeDecodeError")
    ELSE
    LET name   == text.str
        parent == IsParent(name, prefix)
        parsed == IF parent THEN [ok |-> TRUE, exc |-> "", id |-> 0]
                  ELSE ParseId(name, prefix)
    IN
    IF ~parsed.ok THEN Raised(parsed.exc)
    ELSE
    LET p     == pos + 8 + n
        fixed == FileRead(data, p, 48)
    IN
    \* one of the six file.read(8) comes back short
    IF Len(fixed) # 48 THEN Raised("struct.error")
    ELSE
    LET count == Slice(fixed, 17, 8)
        \* range() of a count that no file of the model can hold ends in a short read
        todo  == IF q_negative(count) THEN 0
                 ELSE IF q_fits(count) THEN unpack_q(count)
                 ELSE Len(data)
        nucl  == ReadNuclides(data, p + 48, todo, <<>>)
    IN
    IF ~nucl.ok THEN Raised("struct.error")
    ELSE [ status |-> "ok", exc |-> "", pos |-> nucl.pos,
           mat |-> [ file_name |-> file.name,
                     name      |-> name,
                     parent    |-> parent,
                     id        |-> IF parent THEN <<>> ELSE <<parsed.id>>,
                     bu_global |-> unpack_d(Slice(fixed, 1, 8)),
                     bu_days   |-> unpack_d(Slice(fixed, 9, 8)),
                     nnuc      |-> unpack_q(count),
                     adens     |-> unpack_d(Slice(fixed, 25, 8)),
                     mdens     |-> unpack_d(Slice(fixed, 33, 8)),
                     bu        |-> unpack_d(Slice(fixed, 41, 8)),
                     nuclides  |-> nucl.nuclides ] ]

RECURSIVE NuclideBytes(_)
\* the loop of to_binary over self.nuclides
NuclideBytes(nuclides) ==
    IF nuclides = <<>> THEN <<>>
    ELSE pack_q(IntParse(Head(nuclides).key).val) \o pack_d(Head(nuclides).val.adens)
         \o NuclideBytes(Tail(nuclides))

\* the count field to_binary writes
CountField(mat) == mat.nnuc

\* Material.to_binary()
to_binary(mat) ==
    pack_q(Len(mat.name))
    \o pack_s(Len(mat.name), StrEncode(mat.name))
    \o pack_d(mat.bu_global)
    \o pack_d(mat.bu_days)
    \o pack_q(CountField(mat))
    \o pack_d(mat.adens)
    \o pack_d(mat.mdens)
    \o pack_d(mat.bu)
    \o NuclideBytes(mat.nuclides)

(***************************************************************************)
(* The program state.                                                      *)
(***************************************************************************)
VARIABLES
    input,          \* how the input file was made: its records, and where it was cut
    prefix,         \* the prefix the caller passes
    disk,           \* the files on disk: path -> bytes
    pc,             \* "read", "returned", "raised", "written" or "tripped"
    file,           \* read_binary: the open file, [name, data]
    pos,            \* read_binary: the offset of the open file
    burnups,        \* read_binary: burnups
    snapshots,      \* read_binary: snapshots
    current_step,   \* read_binary: current_step
    decoded,        \* the materials mat.read has filled in this call, in order
    exc,            \* the exception that ended the program, "" if none
    returned,       \* the collections read_binary has returned to the caller, in order
    edits,          \* the changes the caller has made to returned[1], in order
    contents,       \* write_binary: contents
    block           \* the last record-level round trip: material, bytes, decoding

vars == << input, prefix, disk, pc, file, pos, burnups, snapshots, current_step,
           decoded, exc, returned, edits, contents, block >>

\* the locals of read_binary
readvars == << file, pos, burnups, snapshots, current_step, decoded >>

\* what only the caller and write_binary change
callervars == << edits, contents, block >>

(***************************************************************************)
(* read_binary                                                             *)
(***************************************************************************)
\* a fault: "mat.bu_global not in burnups", a burnup seen before opens no step
NewBurnupUnseen(bs, mat) == \A i \in 1..Len(bs) : FloatNe(mat.bu_global, bs[i])

\* a fault: only the first record opens a step
NewBurnupFirst(bs, mat) == Len(bs) = 0

\* "len(burnups) == 0 or mat.bu_global != burnups[-1]"
NewBurnup(bs, mat) == Len(bs) = 0 \/ FloatNe(mat.bu_global, bs[Len(bs)])

\* the if branch: a new snapshot is initialized
OpenStep(snaps, step) == DictSet(snaps, step, [materials |-> <<>>])

\* the else branch: the material is added to the current snapshot
AddMaterial(snaps, step, mat) ==
    DictSet(snaps, step,
            [materials |-> DictSet(DictGet(snaps, step).materials, mat.name, mat)])

\* read_binary up to its loop: the locals are initialized and the file is opened
ReadBinaryStart(path_in) ==
    /\ file' = [name |-> path_in, data |-> disk[path_in]]
    /\ pos' = 0
    /\ burnups' = <<>>
    /\ snapshots' = <<>>
    /\ current_step' = -1
    /\ decoded' = <<>>
    /\ pc' = "read"

\* one turn of the loop in which mat.read returns True
ReadMaterial ==
    /\ pc = "read"
    /\ LET r == MaterialRead(file, pos, prefix)
       IN  /\ r.status = "ok"
           /\ pos' = r.pos
           /\ decoded' = Append(decoded, r.mat)
           /\ IF NewBurnup(burnups, r.mat)
              THEN /\ current_step' = current_step + 1
                   /\ snapshots' = OpenStep(snapshots, current_step + 1)
                   /\ burnups' = Append(burnups, r.mat.bu_global)
              ELSE /\ snapshots' = AddMaterial(snapshots, current_step, r.mat)
                   /\ UNCHANGED << current_step, burnups >>
    /\ UNCHANGED << input, prefix, disk, pc, file, exc, returned >>
    /\ UNCHANGED callervars

\* the turn in which mat.read returns False: the loop breaks, snapshots is returned
ReadEnd ==
    /\ pc = "read"
    /\ MaterialRead(file, pos, prefix).status = "eof"
    /\ pc' = "returned"
    /\ returned' = Append(returned, snapshots)
    /\ UNCHANGED << input, prefix, disk, exc >>
    /\ UNCHANGED readvars
    /\ UNCHANGED callervars

\* the turn in which mat.read raises: read_binary returns nothing
ReadRaise ==
    /\ pc = "read"
    /\ LET r == MaterialRead(file, pos, prefix)
       IN  /\ r.status = "raise"
           /\ exc' = r.exc
    /\ pc' = "raised"
    /\ UNCHANGED << input, prefix, disk, returned >>
    /\ UNCHANGED readvars
    /\ UNCHANGED callervars

(***************************************************************************)
(* write_binary and the caller (the __main__ block)                        *)
(***************************************************************************)
PathIn == "materials1.wrk"

PathOut == "test.wrk"

RECURSIVE MaterialBlocks(_)
\* the inner loop of write_binary: one block per material, in the dict's order
MaterialBlocks(materials) ==
    IF materials = <<>> THEN <<>>
    ELSE <<to_binary(Head(materials).val)>> \o MaterialBlocks(Tail(materials))

\* the order in which "for i_step in snapshots" visits the steps: the dict's own
StepOrder(snaps) == [i \in 1..Len(snaps) |-> i]

RECURSIVE StepBlocks(_, _)
\* the outer loop of write_binary over the steps still to visit
StepBlocks(snaps, order) ==
    IF order = <<>> THEN <<>>
    ELSE MaterialBlocks(snaps[Head(order)].val.materials)
         \o StepBlocks(snaps, Tail(order))

\* write_binary(path_out, snaps): contents is built and written in one piece
WriteBinary ==
    /\ pc = "returned"
    /\ Len(returned) = 1
    /\ contents' = StepBlocks(returned[1], StepOrder(returned[1]))
    /\ disk' = [p \in (DOMAIN disk) \cup {PathOut} |->
                   IF p = PathOut THEN Concat(contents') ELSE disk[p]]
    /\ pc' = "written"
    /\ UNCHANGED << input, prefix, exc, returned, edits, block >>
    /\ UNCHANGED readvars

\* snapshots2 = read_binary(folder+file_out, prefix)
ReadAgain ==
    /\ pc = "written"
    /\ ReadBinaryStart(PathOut)
    /\ UNCHANGED << input, prefix, disk, exc, returned >>
    /\ UNCHANGED callervars

\* the collection with material name of step changed to mat
WithMaterial(snaps, step, name, mat) ==
    DictSet(snaps, step,
            [materials |-> DictSet(DictGet(snaps, step).materials, name, mat)])

\* the caller may still change the collection it got from the first call
CanEdit == pc = "returned" /\ Len(returned) = 1 /\ Len(edits) < MaxEdits

\* snapshots[step]['materials'][name].adens = value
SetAdens(step, name, value) ==
    /\ CanEdit
    /\ DictHas(returned[1], step)
    /\ DictHas(DictGet(returned[1], step).materials, name)
    /\ LET mat == DictGet(DictGet(returned[1], step).materials, name)
       IN  returned' = <<WithMaterial(returned[1], step, name,
                                      [mat EXCEPT !.adens = value])>>
    /\ edits' = Append(edits, [kind |-> "adens", step |-> step, name |-> name])
    /\ UNCHANGED << input, prefix, disk, pc, exc, contents, block >>
    /\ UNCHANGED readvars

\* del snapshots[step]['materials'][name].nuclides[key]
DelNuclide(step, name, key) ==
    /\ CanEdit
    /\ DictHas(returned[1], step)
    /\ DictHas(DictGet(returned[1], step).materials, name)
    /\ LET mat == DictGet(DictGet(returned[1], step).materials, name)
       IN  /\ DictHas(mat.nuclides, key)
           /\ returned' = <<WithMaterial(returned[1], step, name,
                               [mat EXCEPT !.nuclides = DictDel(mat.nuclides, key)])>>
    /\ edits' = Append(edits, [kind |-> "del", step |-> step, name |-> name])
    /\ UNCHANGED << input, prefix, disk, pc, exc, contents, block >>
    /\ UNCHANGED readvars

\* snapshots[step]['materials'][name].nuclides[key] = {'adens': value}
SetNuclide(step, name, key, value) ==
    /\ CanEdit
    /\ DictHas(returned[1], step)
    /\ DictHas(DictGet(returned[1], step).materials, name)
    /\ LET mat == DictGet(DictGet(returned[1], step).materials, name)
       IN  returned' = <<WithMaterial(returned[1], step, name,
                           [mat EXCEPT !.nuclides =
                               DictSet(mat.nuclides, key, [adens |-> value])])>>
    /\ edits' = Append(edits, [kind |-> "set", step |-> step, name |-> name])
    /\ UNCHANGED << input, prefix, disk, pc, exc, contents, block >>
    /\ UNCHANGED readvars

\* s = snapshots.pop(step); snapshots[step] = s: the key is inserted anew, last
ReinsertStep(step) ==
    /\ CanEdit
    /\ DictHas(returned[1], step)
    /\ returned' = <<DictSet(DictDel(returned[1], step), step, DictGet(returned[1], step))>>
    /\ edits' = Append(edits, [kind |-> "reinsert", step |-> step, name |-> <<>>])
    /\ UNCHANGED << input, prefix, disk, pc, exc, contents, block >>
    /\ UNCHANGED readvars

\* a record on its own, instead of the rewrite: the bytes of m.to_binary() are
\* read back with Material.read and the same prefix
RoundTrip(step, name) ==
    /\ pc = "returned"
    /\ Len(returned) = 1
    /\ DictHas(returned[1], step)
    /\ DictHas(DictGet(returned[1], step).materials, name)
    /\ LET mat   == DictGet(DictGet(returned[1], step).materials, name)
           bytes == to_binary(mat)
       IN  block' = [ done  |-> TRUE,
                      mat   |-> mat,
                      bytes |-> bytes,
                      back  |-> MaterialRead([name |-> mat.file_name, data |-> bytes],
                                             0, prefix) ]
    /\ pc' = "tripped"
    /\ UNCHANGED << input, prefix, disk, exc, returned, edits, contents >>
    /\ UNCHANGED readvars

(***************************************************************************)
(* The input files.  A file is the blocks of a list of records, laid out   *)
(* as Material.read reads them, whole or cut short.                        *)
(***************************************************************************)
Flt(sign, exp, frac) == [sign |-> sign, exp |-> exp, frac |-> frac]

F10       == Flt(0, 1026, <<4, 0, 0, 0, 0, 0, 0>>)           \* 10.0
F20       == Flt(0, 1027, <<4, 0, 0, 0, 0, 0, 0>>)           \* 20.0
FNaN      == Flt(0, 2047, <<8, 0, 0, 0, 0, 0, 0>>)           \* float('nan')
FZero     == Flt(0, 0, <<0, 0, 0, 0, 0, 0, 0>>)              \* 0.0
FNegZero  == Flt(1, 0, <<0, 0, 0, 0, 0, 0, 0>>)              \* -0.0
FHalf     == Flt(0, 1022, <<0, 0, 0, 0, 0, 0, 0>>)           \* 0.5
F2        == Flt(0, 1024, <<0, 0, 0, 0, 0, 0, 0>>)           \* 2.0
F3        == Flt(0, 1024, <<8, 0, 0, 0, 0, 0, 0>>)           \* 3.0
F5        == Flt(0, 1025, <<4, 0, 0, 0, 0, 0, 0>>)           \* 5.0
F001      == Flt(0, 1016, <<4, 122, 225, 71, 174, 20, 123>>) \* 0.01
F1000     == Flt(0, 1032, <<15, 64, 0, 0, 0, 0, 0>>)         \* 1e3

Fuel     == <<102, 117>>                       \* "fu", the parent
FuelZ1   == <<102, 117, 122, 49>>              \* "fuz1"
FuelZ2   == <<102, 117, 122, 50>>              \* "fuz2"

\* names that are neither the prefix nor prefix + 'z' + an integer
OddNames ==
    { <<103>>,                                 \* "g"
      <<102, 117, 122>>,                       \* "fuz"
      <<102, 117, 122, 120>>,                  \* "fuzx"
      <<120, 102, 117, 122, 49>>,              \* "xfuz1"
      <<102, 117, 122, 49, 102, 117, 122, 50>>,\* "fuz1fuz2"
      <<102, 117, 122, 49, 102, 117, 122>>,    \* "fuz1fuz"
      <<102, 117, 49>> }                       \* "fu1"

\* names that are prefix + 'z' + a text int() takes
IntNames ==
    { FuelZ1, FuelZ2,
      <<102, 117, 122, 45, 51>>,               \* "fuz-3"
      <<102, 117, 122, 32, 52>>,               \* "fuz 4"
      <<102, 117, 122, 49, 95, 48>> }          \* "fuz1_0"

\* (ZAI, adens) pairs: U-235 twice, U-238
PairU235  == <<922350, F001>>
PairU235b == <<922350, FHalf>>
PairU238  == <<922380, FHalf>>

RECURSIVE PairBytes(_)
PairBytes(pairs) ==
    IF pairs = <<>> THEN <<>>
    ELSE pack_q(Head(pairs)[1]) \o pack_d(Head(pairs)[2]) \o PairBytes(Tail(pairs))

\* the block of one record: the layout of Material.read
RecordBytes(r) ==
    pack_q(Len(r.name)) \o r.name
    \o pack_d(r.bu_global) \o pack_d(F2) \o pack_q(Len(r.pairs))
    \o pack_d(F001) \o pack_d(F3) \o pack_d(F5)
    \o PairBytes(r.pairs)

RECURSIVE FileBytes(_)
FileBytes(recs) ==
    IF recs = <<>> THEN <<>> ELSE RecordBytes(Head(recs)) \o FileBytes(Tail(recs))

\* the offsets at which a record of the file ends
RECURSIVE Boundaries(_, _)
Boundaries(recs, from) ==
    IF recs = <<>> THEN {from}
    ELSE {from} \cup Boundaries(Tail(recs), from + Len(RecordBytes(Head(recs))))

\* the bytes of an input: all of them, or the first cut ones
InputBytes(made) ==
    IF made.cut < 0 THEN FileBytes(made.recs)
    ELSE SubSeq(FileBytes(made.recs), 1, made.cut)

Records(names, bus, pairs) ==
    { [name |-> n, bu_global |-> b, pairs |-> p] : n \in names, b \in bus, p \in pairs }

SeqsUpTo(S, n) == UNION { [1..k -> S] : k \in 0..n }

\* records whose grouping is checked
GroupRecs ==
    Records({StrEncode(Fuel), StrEncode(FuelZ1)}, {F10, F20}, {<<PairU235>>})
    \cup Records({StrEncode(FuelZ1)}, {FNaN, FZero, FNegZero}, {<<PairU235>>})

\* records whose names are checked; one name is not UTF-8
NameRecs ==
    Records({StrEncode(n) : n \in {Fuel} \cup IntNames \cup OddNames} \cup {<<102, 255>>},
            {F10}, {<<>>})

\* records of the files that are cut short
CutRecs ==
    Records({StrEncode(Fuel), StrEncode(FuelZ1)}, {F10},
            {<<>>, <<PairU235, PairU238>>})

\* records of the files that are rewritten; one has the same ZAI twice
RewriteRecs ==
    Records({StrEncode(Fuel), StrEncode(FuelZ1)}, {F10, F20},
            {<<PairU235>>, <<PairU235, PairU235b>>})

WholeInputs(lists) == { [recs |-> r, cut |-> -1] : r \in lists }

\* the files cut strictly inside a record
CutInputs(lists) ==
    UNION { { [recs |-> r, cut |-> c] :
                c \in (0..Len(FileBytes(r))) \ Boundaries(r, 0) } : r \in lists }

ReadInputs ==
    WholeInputs(SeqsUpTo(GroupRecs, MaxRecs))
    \cup WholeInputs(SeqsUpTo(NameRecs, MaxShortRecs))
    \cup CutInputs(SeqsUpTo(CutRecs, MaxShortRecs))

RewriteInputs == WholeInputs(SeqsUpTo(RewriteRecs, MaxRewriteRecs))

(***************************************************************************)
(* The specifications.                                                     *)
(***************************************************************************)
\* the caller has put the input file on disk and calls read_binary(PathIn, prefix)
Start(made) ==
    /\ input = made
    /\ prefix = Fuel
    /\ disk = [p \in {PathIn} |-> InputBytes(made)]
    /\ pc = "read"
    /\ file = [name |-> PathIn, data |-> InputBytes(made)]
    /\ pos = 0
    /\ burnups = <<>>
    /\ snapshots = <<>>
    /\ current_step = -1
    /\ decoded = <<>>
    /\ exc = ""
    /\ returned = <<>>
    /\ edits = <<>>
    /\ contents = <<>>
    /\ block = [done |-> FALSE]

InitRead == \E made \in ReadInputs : Start(made)

NextRead == ReadMaterial \/ ReadEnd \/ ReadRaise

\* read_binary on its own, over whole, odd and cut files
SpecRead == InitRead /\ [][NextRead]_vars

Init == \E made \in RewriteInputs : Start(made)

StepKeys == 0..(MaxRewriteRecs - 1)

EditNames == {Fuel, FuelZ1}

CallerSetsAdens == \E step \in StepKeys, name \in EditNames : SetAdens(step, name, F1000)

CallerDeletesNuclide ==
    \E step \in StepKeys, name \in EditNames : DelNuclide(step, name, IntToStr(PairU235[1]))

CallerSetsNuclide ==
    \E step \in StepKeys, name \in EditNames :
        SetNuclide(step, name, IntToStr(PairU238[1]), PairU238[2])

CallerReinsertsStep == \E step \in StepKeys : ReinsertStep(step)

RecordRoundTrip == \E step \in StepKeys, name \in EditNames : RoundTrip(step, name)

Next ==
    \/ ReadMaterial
    \/ ReadEnd
    \/ ReadRaise
    \/ CallerSetsAdens
    \/ CallerDeletesNuclide
    \/ CallerSetsNuclide
    \/ CallerReinsertsStep
    \/ RecordRoundTrip
    \/ WriteBinary
    \/ ReadAgain

\* the __main__ block: read, change, write, read again
Spec == Init /\ [][Next]_vars

(***************************************************************************)
(* What the claims speak of.                                               *)
(***************************************************************************)
\* record j of ms opens a run: it is the first, or its burnup differs from the
\* one before it
OpensRun(ms, j) == j = 1 \/ FloatNe(ms[j].bu_global, ms[j - 1].bu_global)

\* the number of the maximal run of equal burnups that record j lies in
RunOf(ms, j) == Cardinality({ k \in 1..j : OpensRun(ms, k) })

NumRuns(ms) == Cardinality({ k \in 1..Len(ms) : OpensRun(ms, k) })

\* the records of run i
RunMembers(ms, i) == { j \in 1..Len(ms) : RunOf(ms, j) = i }

\* the names under which step number i (counted from 1) holds materials
StepNames(snaps, i) ==
    { snaps[i].val.materials[k].key : k \in 1..Len(snaps[i].val.materials) }

\* the materials step number i holds
StepMats(snaps, i) ==
    { snaps[i].val.materials[k].val : k \in 1..Len(snaps[i].val.materials) }

\* the keys of a dict in its order
DictKeys(d) == [i \in 1..Len(d) |-> d[i].key]

\* name is prefix + 'z' + the text of an integer
IsSubRegionName(name, pre) ==
    /\ Len(name) > Len(pre) + 1
    /\ SubSeq(name, 1, Len(pre) + 1) = pre \o <<122>>
    /\ IntParse(SubSeq(name, Len(pre) + 2, Len(name))).ok

\* a material without the attributes that are no part of the record
Fields(mat) ==
    [ name |-> mat.name, parent |-> mat.parent, id |-> mat.id,
      bu_global |-> mat.bu_global, bu_days |-> mat.bu_days, adens |-> mat.adens,
      mdens |-> mat.mdens, bu |-> mat.bu,
      nuclides |-> { <<mat.nuclides[k].key, mat.nuclides[k].val.adens>> :
                        k \in 1..Len(mat.nuclides) } ]

\* a collection as steps of materials, each material by its fields
CollectionFields(snaps) ==
    [ i \in 1..Len(snaps) |->
        [ key |-> snaps[i].key,
          materials |-> [ k \in 1..Len(snaps[i].val.materials) |->
                            Fields(snaps[i].val.materials[k].val) ] ] ]

\* the steps of a collection by ascending key
AscendingOrder(snaps) ==
    [ i \in 1..Len(snaps) |->
        CHOOSE j \in 1..Len(snaps) :
            Cardinality({ k \in 1..Len(snaps) : snaps[k].key < snaps[j].key }) = i - 1 ]

RECURSIVE Flatten(_)
\* the materials of a collection in the order of its dicts
Flatten(snaps) ==
    IF snaps = <<>> THEN <<>>
    ELSE [ k \in 1..Len(Head(snaps).val.materials) |-> Head(snaps).val.materials[k].val ]
         \o Flatten(Tail(snaps))

\* the count field of a block, and the number of bytes that follow the fixed fields
BlockCount(b) == unpack_q(Slice(b, 8 + unpack_q(Slice(b, 1, 8)) + 16 + 1, 8))

BlockPairBytes(b) == Len(b) - (8 + unpack_q(Slice(b, 1, 8)) + 48)

\* the caller has changed one atomic density and nothing else
OnlyAdensSet == Len(edits) = 1 /\ edits[1].kind = "adens"

(***************************************************************************)
(* The claims.                                                             *)
(***************************************************************************)

\* C1: when read_binary returns, step i holds one entry per distinct name of
\* the records of run i, the record that opened the run included.
C1_EveryRecordOfARunIsStored ==
    pc = "returned" =>
        \A i \in 1..Len(snapshots) :
            StepNames(snapshots, i) = { decoded[j].name : j \in RunMembers(decoded, i) }

\* C2: after any number of decoded records there are as many steps as maximal
\* runs of equal burnup_global, their keys are 0..k-1 in run order, the burnup
\* kept for step i is that of the record that opened run i, and a material held
\* by step i is a record of run i: no run is merged into an earlier step.
C2_StepsAreTheRuns ==
    /\ Len(snapshots) = NumRuns(decoded)
    /\ DictKeys(snapshots) = [ i \in 1..Len(snapshots) |-> i - 1 ]
    /\ current_step = Len(snapshots) - 1
    /\ Len(burnups) = Len(snapshots)
    /\ \A j \in 1..Len(decoded) :
          OpensRun(decoded, j) => burnups[RunOf(decoded, j)] = decoded[j].bu_global
    /\ \A i \in 1..Len(snapshots) :
          StepMats(snapshots, i) \subseteq { decoded[j] : j \in RunMembers(decoded, i) }

\* C2 witness: read_binary has returned three steps, the first and the third of
\* the same burnup, and the third holds a material.
C2_Witness ==
    /\ pc = "returned"
    /\ Len(snapshots) = 3
    /\ ~FloatNe(burnups[1], burnups[3])
    /\ StepMats(snapshots, 3) # {}

\* C3: in every block write_binary got from to_binary, the count field is the
\* size of the material's nuclides mapping and that many pairs follow it.
C3_CountIsTheMappingSize ==
    pc = "written" =>
        \A i \in 1..Len(contents) :
            /\ BlockCount(contents[i]) = Len(Flatten(returned[1])[i].nuclides)
            /\ BlockPairBytes(contents[i]) = 16 * BlockCount(contents[i])

\* C4: after one atomic density was overwritten, write_binary and read_binary
\* give back the caller's collection: the second read does not fail, and what
\* it returns has the same steps and the same materials with the same fields.
C4_RewriteGivesTheCollectionBack ==
    OnlyAdensSet =>
        /\ pc # "raised"
        /\ Len(returned) = 2 =>
              CollectionFields(returned[2]) = CollectionFields(returned[1])

\* C5: reading back the bytes of m.to_binary() succeeds, consumes all of them
\* and yields a material with the fields of m.
C5_RecordRoundTrip ==
    block.done =>
        /\ block.back.status = "ok"
        /\ block.back.pos = Len(block.bytes)
        /\ Fields(block.back.mat) = Fields(block.mat)

\* C6: a file cut strictly inside a record is never read to a clean end: no
\* collection is returned, the read that comes back short raises struct.error,
\* every material kept so far was filled in whole, and the loop only ends
\* without an error when no byte is left.
C6_CutFileRaises ==
    /\ pc = "returned" => pos = Len(file.data)
    /\ input.cut >= 0 =>
          /\ pc # "returned"
          /\ returned = <<>>
          /\ pc = "read" => MaterialRead(file, pos, prefix).status # "eof"
          /\ pc = "raised" => exc = "struct.error"
          /\ \A j \in 1..Len(decoded) : decoded[j].nnuc = Len(decoded[j].nuclides)
          /\ pos \in Boundaries(input.recs, 0)

\* C6 witness: a file whose second record has only part of its 8-byte header
\* has raised.
C6_Witness ==
    /\ input.cut >= 0
    /\ pc = "raised"
    /\ Len(decoded) = 1
    /\ Len(file.data) - pos \in 1..7

\* C7: every name Material.read accepts is the prefix or prefix + 'z' + the
\* text of an integer.
C7_OnlyPatternNamesAreAccepted ==
    \A j \in 1..Len(decoded) :
        decoded[j].name = prefix \/ IsSubRegionName(decoded[j].name, prefix)

\* C8: the materials a step holds have the burnup_global that was kept for the
\* step when it was opened, and so the same one.
C8_OneBurnupPerStep ==
    \A i \in 1..Len(snapshots) :
        \A m \in StepMats(snapshots, i) :
            /\ ~FloatNe(m.bu_global, burnups[i])
            /\ \A m2 \in StepMats(snapshots, i) : ~FloatNe(m.bu_global, m2.bu_global)

\* C8 witness: read_binary has returned a collection with a step of two
\* materials.
C8_Witness ==
    /\ pc = "returned"
    /\ \E i \in 1..Len(returned[1]) : Cardinality(StepMats(returned[1], i)) = 2

\* C9: on a file of zero bytes read_binary raises nothing, allocates no step
\* and returns the empty collection.
C9_EmptyFileEmptyCollection ==
    Len(disk[PathIn]) = 0 =>
        /\ pc \in {"read", "returned"}
        /\ exc = ""
        /\ snapshots = <<>>
        /\ current_step = -1
        /\ burnups = <<>>
        /\ pc = "read" => MaterialRead(file, pos, prefix).status = "eof"
        /\ pc = "returned" => returned = << <<>> >>

\* C9 witness: read_binary has returned on the file of zero bytes.
C9_Witness == Len(disk[PathIn]) = 0 /\ pc = "returned" /\ returned = << <<>> >>

\* C10: write_binary's contents are the blocks of the steps by ascending key,
\* within a step in the order of its materials dict, and the file is their
\* concatenation.
C10_StepsAreWrittenAscending ==
    pc = "written" =>
        /\ contents = StepBlocks(returned[1], AscendingOrder(returned[1]))
        /\ disk[PathOut] = Concat(contents)

====
